---- MODULE Spec2Model ----
(***************************************************************************)
(* Resumable download queue of xtream-to-strm-web: the Task Store rows,    *)
(* the files on disk, the dispatch queue of download_media_task messages,  *)
(* the worker invocations that run download_media_task and the             *)
(* invocations of process_download_queue, as one state machine.            *)
(*                                                                         *)
(* Sizes are counted in chunks (CHUNK_SIZE bytes); the remote content of   *)
(* every media item is the chunk sequence 1, 2, .., total.           *)
(***************************************************************************)
EXTENDS Integers, Sequences, FiniteSets, Bags, TLC

\* ---------------------------------------------------------------- bounds
NumSubs == 1
NumMedia == 2
NumWorkers == 2
NumProcs == 2
\* Spec: admission over two tasks of one source with one slot, one pool
\* process, every user operation and the maintenance job.
SchedParallel == 1
SchedTasks == 2
SchedQueue == 1
SchedRetries == 1
SchedChunks == 1
SchedBytes == 1
\* SpecSeq: sequential mode, two tasks, enqueues, queue-processor runs and
\* worker invocations with one automatic retry.
SeqTasks == 2
SeqQueue == 2
SeqRetries == 2
SeqChunks == 1
SeqBytes == 1
\* SpecDup: one media item, a source with two slots.
DupParallel == 2
DupTasks == 2
DupQueue == 2
DupRetries == 1
DupChunks == 1
DupBytes == 1
\* SpecRetry: one task under the default retry policy, with the default
\* base delay or a configured one.
RetryBaseConfigured == 30
RetryTasks == 1
RetryQueue == 2
RetryChunks == 1
RetryBytes == 1
\* SpecRace: two pool processes and one queue-processor run on one task.
RaceTasks == 1
RaceQueue == 2
RaceRetries == 2
RaceChunks == 1
RaceBytes == 2
\* SpecAdmit: two concurrent queue-processor runs, one pool process.
AdmitTasks == 1
AdmitQueue == 2
AdmitRetries == 1
AdmitChunks == 1
AdmitBytes == 1
\* SpecOrder and SpecOrderSeq: the selection of the queue processor over
\* three tasks with priorities and scheduled starts.
OrderTasks == 3
OrderQueue == 3
OrderRetries == 1
OrderChunks == 1
\* SpecCancel: two rows of one media item, cancel and batch endpoints.
CancelTasks == 2
CancelQueue == 1
CancelRetries == 1
CancelChunks == 1
CancelBytes == 1
\* SpecSweep: the hourly job with auto-cleanup switched on and off.
SweepTasks == 2
SweepQueue == 1
SweepRetries == 1
SweepChunks == 1
SweepBytes == 1
\* SpecBackoff: one task, two retries, the clock running for two minutes.
BackoffTasks == 1
BackoffQueue == 2
BackoffRetries == 2
BackoffChunks == 1
BackoffBytes == 1
BackoffHorizon == 120
\* SpecDiscover: one monitored media item; rowids up to DiscoverTasks in
\* every specification.
DiscoverTasks == 2
DiscoverQueue == 1
DiscoverRetries == 1
DiscoverChunks == 1
DiscoverBytes == 1
\* SpecNoRange: a remote that ignores Range, a two-chunk file.
NoRangeTasks == 1
NoRangeQueue == 1
NoRangeRetries == 2
NoRangeChunks == 2
NoRangeBytes == 2
\* SpecXfer: the transfer of a three-chunk file.
XferTasks == 1
XferQueue == 1
XferRetries == 1
XferChunks == 3
XferBytes == 3
\* SpecQuiet: one task over one day, the clock moving four hours at a time.
QuietTasks == 1
QuietQueue == 1
QuietRetries == 1
QuietChunks == 1
QuietBytes == 1
QuietHours == 4
QuietDays == 1
\* SpecThrottle: one task, a two-chunk file, chunks up to two units late.
ThrottleTasks == 1
ThrottleQueue == 1
ThrottleRetries == 1
ThrottleChunks == 2
ThrottleBytes == 2
ThrottleWait == 2
\* SpecStats: three tasks and two workers over two days; the statistics
\* row is that of the second day and counts up to three transfers.
StatsTasks == 3
StatsQueue == 2
StatsRetries == 1
StatsChunks == 1
StatsBytes == 1
StatsParallel == 2
StatsDay == 1
StatsDays == 2
StatsMax == 3
\* SpecStale: one task, two queue-processor runs, one worker, two messages.
StaleTasks == 1
StaleQueue == 2
StaleRetries == 1
StaleChunks == 1
StaleBytes == 1
StaleMax == 2

\* ------------------------------------------------------ program constants
default_max_retries == 3
default_retry_delay_base_seconds == 60
RetryDelaySeconds == 60

VARIABLES
    tasks,          \* download_tasks table: id -> row
    files,          \* file system: save path -> chunks on disk
    queue,          \* broker: bag of download_media_task messages
    wk,             \* worker invocations of download_media_task
    pq,             \* invocations of process_download_queue
    download_mode,  \* DownloadSettingsGlobal.download_mode
    honoursRange,   \* whether the remote answers a Range request with 206
    total,          \* size of the remote content, in chunks
    max_retries,    \* DownloadSettingsGlobal.default_max_retries
    max_parallel_downloads,  \* Subscription.max_parallel_downloads
    retry_delay_base_seconds,  \* DownloadSettingsGlobal.retry_delay_base_seconds
    auto_cleanup_enabled,  \* DownloadSettingsGlobal.auto_cleanup_enabled
    now,            \* datetime.now(), in seconds since midnight of the
                    \* day the system started
    monitored,      \* the media the catalog lists for the active
                    \* MonitoredMedia rows
    quiet_hours_start,  \* DownloadSettingsGlobal.quiet_hours_start, "HH:MM"
    quiet_hours_end,    \* DownloadSettingsGlobal.quiet_hours_end, "HH:MM"
    pause_during_quiet_hours,  \* DownloadSettingsGlobal.pause_during_quiet_hours
    stats,          \* download_statistics: the row of the day StatsDay
    hist            \* history: per task, admissions since last PENDING and
                    \* the countdowns the retry handler scheduled

vars == <<tasks, files, queue, wk, pq, download_mode, honoursRange, total,
          max_retries, max_parallel_downloads, retry_delay_base_seconds,
          auto_cleanup_enabled, now, monitored, quiet_hours_start,
          quiet_hours_end, pause_during_quiet_hours, stats, hist>>

\* The settings, the remote, the clock, the monitored list and the day's
\* statistics: what the download endpoints and the jobs leave alone; only
\* the settings and monitoring endpoints, the passing of time and the
\* statistics update of a worker change them.
config == <<download_mode, honoursRange, total, max_retries,
            max_parallel_downloads, retry_delay_base_seconds,
            auto_cleanup_enabled, now, monitored, quiet_hours_start,
            quiet_hours_end, pause_during_quiet_hours, stats>>

Subs == 1..NumSubs
Kinds == {"movie", "episode"}
MediaIds == 1..NumMedia
Workers == 1..NumWorkers
Procs == 1..NumProcs
Paths == Subs \X Kinds \X MediaIds

PENDING == "pending"
DOWNLOADING == "downloading"
COMPLETED == "completed"
FAILED == "failed"
PAUSED == "paused"
CANCELLED == "cancelled"

Ids == DOMAIN tasks

Max(S) == CHOOSE x \in S : \A y \in S : y <= x
Min2(a, b) == IF a <= b THEN a ELSE b

\* SQLite INTEGER PRIMARY KEY without AUTOINCREMENT: the next rowid is the
\* largest one in the table plus one.
NewId == IF Ids = {} THEN 1 ELSE Max(Ids) + 1

\* A row as DownloadTask(...) creates it: the column defaults.
NewRow(sub, kind, mid) ==
    [subscription_id |-> sub, media_type |-> kind, media_id |-> mid,
     status |-> PENDING, priority |-> 0, sched |-> FALSE,
     retry_count |-> 0, next_retry_at |-> 0,
     downloaded_bytes |-> 0, file_size |-> 0, error_message |-> "none"]

NewHist == [adm |-> 0, delays |-> <<>>]

\* The content the remote serves for every media item.
Full == [i \in 1..total |-> i]

\* _resolve_target_path: the path is a function of the source, the media
\* kind and the media id (cache or catalog name of that item).
SavePath(t) == <<tasks[t].subscription_id, tasks[t].media_type, tasks[t].media_id>>

\* Insert / delete rows, keeping the history variable's domain in step.
Insert(T, id, row) == [i \in (DOMAIN T) \cup {id} |-> IF i = id THEN row ELSE T[i]]
Remove(T, D) == [i \in (DOMAIN T) \ D |-> T[i]]

\* `restarts` counts the restarts from zero of the attempt (history).
\* No row for the day in download_statistics; the counters of a row.
NoStats == [exists |-> FALSE, total_downloads |-> 0,
            completed_downloads |-> 0, failed_downloads |-> 0]
IdleWorker == [pc |-> "idle", task |-> 0, existing |-> 0, mem |-> 0,
               dirty |-> FALSE, mode |-> "wb", next |-> 0, restarts |-> 0,
               elapsed |-> 0, success |-> FALSE, seen |-> NoStats]
IdleProc == [pc |-> "idle", sub |-> 0, sel |-> <<>>]

InitState(mode, range, size, retries, slots, base, qstart, qend, qpause) ==
    /\ tasks = <<>>
    /\ files = [p \in Paths |-> <<>>]
    /\ queue = EmptyBag
    /\ wk = [w \in Workers |-> IdleWorker]
    /\ pq = [p \in Procs |-> IdleProc]
    /\ download_mode = mode
    /\ honoursRange = range
    /\ total = size
    /\ max_retries = retries
    /\ max_parallel_downloads = slots
    /\ retry_delay_base_seconds = base
    /\ auto_cleanup_enabled = TRUE
    /\ now = 0
    /\ monitored = {}
    /\ quiet_hours_start = qstart
    /\ quiet_hours_end = qend
    /\ pause_during_quiet_hours = qpause
    /\ stats = NoStats
    /\ hist = <<>>

\* The state after construction with the column defaults of the quiet-hours
\* settings.
InitWith(mode, range, size, retries, slots, base) ==
    InitState(mode, range, size, retries, slots, base, "00:00", "08:00", TRUE)

\* ------------------------------------------------------------- endpoints

\* queue_download: query(...).first() with no ORDER BY returns the matching
\* row of lowest rowid.
Matching(sub, kind, mid) ==
    {t \in Ids : /\ tasks[t].subscription_id = sub
                 /\ tasks[t].media_id = mid
                 /\ tasks[t].media_type = kind}

EnqueueReturnsExisting(sub, kind, mid) ==
    /\ Matching(sub, kind, mid) # {}
    /\ LET existing == CHOOSE t \in Matching(sub, kind, mid) :
                           \A u \in Matching(sub, kind, mid) : t <= u
       IN tasks[existing].status \in {PENDING, DOWNLOADING, COMPLETED}

Enqueue(sub, kind, mid, b) ==
    /\ IF EnqueueReturnsExisting(sub, kind, mid)
       THEN UNCHANGED <<tasks, hist>>
       ELSE /\ NewId <= b.tasks
            /\ tasks' = Insert(tasks, NewId, NewRow(sub, kind, mid))
            /\ hist' = Insert(hist, NewId, NewHist)
    /\ UNCHANGED <<files, queue, wk, pq, config>>

\* retry_download: any existing row, whatever its status.
Retry(t) ==
    /\ t \in Ids
    /\ tasks' = [tasks EXCEPT ![t].status = PENDING,
                              ![t].error_message = "none",
                              ![t].retry_count = 0,
                              ![t].next_retry_at = 0]
    /\ hist' = [hist EXCEPT ![t] = NewHist]
    /\ UNCHANGED <<files, queue, wk, pq, config>>

\* pause_download: only a DOWNLOADING row (anything else is a 400).
Pause(t) ==
    /\ t \in Ids
    /\ tasks[t].status = DOWNLOADING
    /\ tasks' = [tasks EXCEPT ![t].status = PAUSED]
    /\ UNCHANGED <<files, queue, wk, pq, config, hist>>

\* resume_download: only a PAUSED row.
Resume(t) ==
    /\ t \in Ids
    /\ tasks[t].status = PAUSED
    /\ tasks' = [tasks EXCEPT ![t].status = PENDING]
    /\ hist' = [hist EXCEPT ![t].adm = 0]
    /\ UNCHANGED <<files, queue, wk, pq, config>>

\* cancel_download: a DOWNLOADING row is marked CANCELLED after
\* control.revoke(task.task_id, terminate=True); any other row is deleted.
\* `kill` is the pool process the revoke terminates in time (it stops where
\* it is, no handler runs), or 0 when the process runs on: the signal is
\* asynchronous and task_id may be unset or name another invocation.
Cancel(t, kill) ==
    /\ t \in Ids
    /\ IF tasks[t].status = DOWNLOADING
       THEN /\ kill \in Workers =>
                  wk[kill].pc # "idle" /\ wk[kill].task = t
            /\ tasks' = [tasks EXCEPT ![t].status = CANCELLED]
            /\ wk' = [w \in Workers |-> IF w = kill THEN IdleWorker ELSE wk[w]]
            /\ UNCHANGED hist
       ELSE /\ kill = 0
            /\ tasks' = Remove(tasks, {t})
            /\ hist' = Remove(hist, {t})
            /\ UNCHANGED wk
    /\ UNCHANGED <<files, queue, pq, config>>

\* batch_delete_tasks: the rows named, whatever their status.
BatchDelete(D) ==
    /\ D # {} /\ D \subseteq Ids
    /\ tasks' = Remove(tasks, D)
    /\ hist' = Remove(hist, D)
    /\ UNCHANGED <<files, queue, wk, pq, config>>

\* batch_retry_tasks: the rows named, whatever their status.
BatchRetry(D) ==
    /\ D # {} /\ D \subseteq Ids
    /\ tasks' = [t \in Ids |-> IF t \in D
                                THEN [tasks[t] EXCEPT !.status = PENDING,
                                                      !.error_message = "none",
                                                      !.retry_count = 0,
                                                      !.next_retry_at = 0]
                                ELSE tasks[t]]
    /\ hist' = [t \in Ids |-> IF t \in D THEN NewHist ELSE hist[t]]
    /\ UNCHANGED <<files, queue, wk, pq, config>>

\* batch_pause_tasks: those of the rows named that are DOWNLOADING.
BatchPause(D) ==
    /\ D # {} /\ D \subseteq Ids
    /\ tasks' = [t \in Ids |-> IF t \in D /\ tasks[t].status = DOWNLOADING
                                THEN [tasks[t] EXCEPT !.status = PAUSED]
                                ELSE tasks[t]]
    /\ UNCHANGED <<files, queue, wk, pq, config, hist>>

\* batch_resume_tasks: those of the rows named that are PAUSED.
BatchResume(D) ==
    /\ D # {} /\ D \subseteq Ids
    /\ tasks' = [t \in Ids |-> IF t \in D /\ tasks[t].status = PAUSED
                                THEN [tasks[t] EXCEPT !.status = PENDING]
                                ELSE tasks[t]]
    /\ hist' = [t \in Ids |-> IF t \in D /\ tasks[t].status = PAUSED
                               THEN [hist[t] EXCEPT !.adm = 0]
                               ELSE hist[t]]
    /\ UNCHANGED <<files, queue, wk, pq, config>>

\* update_priority: any row, any integer (move-up and move-down write
\* priority + 1 and max(0, priority - 1), values this action also writes).
Priorities == {0, 1, 5, 10}

UpdatePriority(t, priority) ==
    /\ t \in Ids
    /\ tasks' = [tasks EXCEPT ![t].priority = priority]
    /\ UNCHANGED <<files, queue, wk, pq, config, hist>>

\* A write of scheduled_start_at (`later`: a time still in the future), or
\* that time arriving. The queue processor reads the column; the writer is
\* not part of the sources.
SetScheduledStart(t, later) ==
    /\ t \in Ids
    /\ tasks[t].sched # later
    /\ tasks' = [tasks EXCEPT ![t].sched = later]
    /\ UNCHANGED <<files, queue, wk, pq, config, hist>>

\* A message of the broker: download_media_task.delay(id) or
\* .apply_async(args=[id], countdown=delay). When a message is delivered is
\* the broker's and the pool's choice, so the countdown is kept in the
\* history (hist[t].delays) and in next_retry_at, not in the message.
Msg(t) == [task |-> t]

\* --------------------------------------------------- process_download_queue

\* Variant: the lowest priority first.
BeforeLowestFirst(a, b, asc) ==
    \/ tasks[a].priority < tasks[b].priority
    \/ /\ tasks[a].priority = tasks[b].priority
       /\ IF asc THEN a < b ELSE a > b

\* order_by(priority.desc(), created_at.asc()) in parallel mode;
\* sort(key=(priority, created_at), reverse=True) in sequential mode.
\* created_at order is rowid order.
Before(a, b, asc) ==
    \/ tasks[a].priority > tasks[b].priority
    \/ /\ tasks[a].priority = tasks[b].priority
       /\ IF asc THEN a < b ELSE a > b

RECURSIVE SortIds(_, _)
SortIds(S, asc) ==
    IF S = {} THEN <<>>
    ELSE LET h == CHOOSE a \in S : \A b \in S \ {a} : Before(a, b, asc)
         IN <<h>> \o SortIds(S \ {h}, asc)

Take(seq, n) == SubSeq(seq, 1, Min2(n, Len(seq)))

Downloading(sub) ==
    {t \in Ids : tasks[t].subscription_id = sub /\ tasks[t].status = DOWNLOADING}
PendingOf(sub) ==
    {t \in Ids : tasks[t].subscription_id = sub /\ tasks[t].status = PENDING}

\* sub.max_parallel_downloads or 2
MaxParallelOf(sub) == IF max_parallel_downloads = 0 THEN 2 ELSE max_parallel_downloads

\* Lines 603-614: the slots left and the PENDING rows that fill them.
ParSelect(sub) ==
    LET available_slots == MaxParallelOf(sub) - Cardinality(Downloading(sub))
    IN IF available_slots > 0
       THEN Take(SortIds(PendingOf(sub), TRUE), available_slots)
       ELSE <<>>

\* Lines 577-591: nothing when anything is DOWNLOADING, else the first of
\* all PENDING rows of the active subscriptions, sorted in reverse.
SeqSelect ==
    LET total_active == Cardinality({t \in Ids : tasks[t].status = DOWNLOADING})
        all_pending == UNION {PendingOf(sub) : sub \in Subs}
    IN IF total_active >= 1 \/ all_pending = {}
       THEN <<>>
       ELSE Take(SortIds(all_pending, FALSE), 1)

\* Where a run goes once its selection for subscription `sub` is used up.
ProcAfter(sub, rest) ==
    IF rest # <<>> THEN [pc |-> "promote", sub |-> sub, sel |-> rest]
    ELSE IF download_mode # "sequential" /\ sub < NumSubs
         THEN [pc |-> "query", sub |-> sub, sel |-> <<>>]
         ELSE IdleProc

\* The queries of a run: in sequential mode the count and the PENDING query
\* of the whole run, in parallel mode the two queries of one iteration of
\* `for sub in subscriptions` (the run starts with the first subscription).
ProcQuery(p) ==
    /\ IF download_mode = "sequential"
       THEN /\ pq[p].pc = "idle"
            /\ pq' = [pq EXCEPT ![p] = ProcAfter(NumSubs, SeqSelect)]
       ELSE /\ pq[p].pc \in {"idle", "query"}
            /\ LET sub == pq[p].sub + 1
               IN pq' = [pq EXCEPT ![p] = ProcAfter(sub, ParSelect(sub))]
    /\ UNCHANGED <<tasks, files, queue, wk, config, hist>>

\* The status the promotion writes (lines 594 and 621).
PromotedStatus == DOWNLOADING

\* One iteration over the selected rows: skip a row scheduled for later,
\* else mark it DOWNLOADING, commit, and dispatch download_media_task. A row
\* deleted since the query makes the commit (or the reload) raise and ends
\* the run.
ProcPromote(p, b) ==
    /\ pq[p].pc = "promote"
    /\ LET d == Head(pq[p].sel)
           rest == Tail(pq[p].sel)
       IN IF d \notin Ids
          THEN /\ pq' = [pq EXCEPT ![p] = IdleProc]
               /\ UNCHANGED <<tasks, queue, hist>>
          ELSE IF tasks[d].sched
          THEN /\ pq' = [pq EXCEPT ![p] = ProcAfter(pq[p].sub, rest)]
               /\ UNCHANGED <<tasks, queue, hist>>
          ELSE /\ BagCardinality(queue) < b.queue
               /\ tasks' = [tasks EXCEPT ![d].status = PromotedStatus]
               /\ hist' = [hist EXCEPT ![d].adm = @ + 1]
               /\ queue' = queue (+) SetToBag({Msg(d)})
               /\ pq' = [pq EXCEPT ![p] = ProcAfter(pq[p].sub, rest)]
    /\ UNCHANGED <<files, wk, config>>

\* -------------------------------------------------------- retry handler

\* settings.default_max_retries or 3
MaxRetries == IF max_retries = 0 THEN 3 ELSE max_retries

RECURSIVE Pow2(_)
Pow2(n) == IF n <= 0 THEN 1 ELSE 2 * Pow2(n - 1)

\* delay = 60 * (2 ** (download.retry_count - 1))
RetryDelay(retry_count) == RetryDelaySeconds * Pow2(retry_count - 1)

\* retry_count < max_r
WillRetry(retry_count) == retry_count < MaxRetries

\* The except branch of download_media_task (lines 545-565): refresh the row,
\* count the failure, then either re-arm the task and schedule a delayed
\* dispatch or mark it FAILED. With the row gone the refresh raises and the
\* inner except swallows it.
HandlerRetries(t) == IF t \in Ids THEN WillRetry(tasks[t].retry_count + 1) ELSE FALSE

\* Variant: with the retries used up the row is left as it is.
HandlerTasksGivesUp(t) ==
    IF t \notin Ids THEN tasks
    ELSE LET rc == tasks[t].retry_count + 1
         IN IF WillRetry(rc)
            THEN [tasks EXCEPT ![t].retry_count = rc,
                               ![t].status = PENDING,
                               ![t].next_retry_at = now + RetryDelay(rc),
                               ![t].error_message = "retry"]
            ELSE [tasks EXCEPT ![t].retry_count = rc]

HandlerTasks(t) ==
    IF t \notin Ids THEN tasks
    ELSE LET rc == tasks[t].retry_count + 1
         IN IF WillRetry(rc)
            THEN [tasks EXCEPT ![t].retry_count = rc,
                               ![t].status = PENDING,
                               ![t].next_retry_at = now + RetryDelay(rc),
                               ![t].error_message = "retry"]
            ELSE [tasks EXCEPT ![t].retry_count = rc,
                               ![t].status = FAILED,
                               ![t].error_message = "error"]

HandlerQueue(t, q) ==
    IF HandlerRetries(t)
    THEN q (+) SetToBag({Msg(t)})
    ELSE q

HandlerHist(t) ==
    IF HandlerRetries(t)
    THEN [hist EXCEPT ![t].adm = 0,
                      ![t].delays = Append(@, RetryDelay(tasks[t].retry_count + 1))]
    ELSE hist

\* ------------------------------------------------------ download_media_task

\* update_daily_stats up to its query (lines 43-44): the worker that has
\* committed an outcome reads the row of today; the model holds the row of
\* the day StatsDay only, so on another day the update is not followed.
Today == now \div (24 * 60 * 60)

Counted(success) ==
    IF Today = StatsDay
    THEN [IdleWorker EXCEPT !.pc = "stats", !.success = success, !.seen = stats]
    ELSE IdleWorker

\* Variant: only a completed task returns at once.
StartReturnsCompleted(status) == status = COMPLETED

\* The statuses for which a delivered invocation returns at once (line 515).
StartReturns(status) == status \in {COMPLETED, CANCELLED}

\* `if not download or download.status in [...]: return`
Returns(t) == IF t \in Ids THEN StartReturns(tasks[t].status) ELSE TRUE

\* Delivery of a message to a free pool process, up to the first request:
\* the early returns, path resolution (which may raise), the promotion to
\* DOWNLOADING and the resume offset taken from the file on disk.
WorkerStart(w, m) ==
    /\ wk[w].pc = "idle"
    /\ BagIn(m, queue)
    /\ LET t == m.task
           q == queue (-) SetToBag({m})
       IN \/ /\ Returns(t)
             /\ queue' = q
             /\ UNCHANGED <<tasks, wk, hist>>
          \/ /\ ~Returns(t)
             /\ \/ /\ tasks[t].retry_count < MaxRetries
                   /\ tasks' = HandlerTasks(t)       \* _resolve_target_path raises
                   /\ queue' = HandlerQueue(t, q)
                   /\ hist' = HandlerHist(t)
                   /\ wk' = IF HandlerRetries(t) THEN wk
                             ELSE [wk EXCEPT ![w] = Counted(FALSE)]
                \/ LET existing_size == Len(files[SavePath(t)])
                   IN /\ tasks' = [tasks EXCEPT ![t].status = DOWNLOADING,
                                                ![t].downloaded_bytes = existing_size]
                      /\ wk' = [wk EXCEPT ![w] = [pc |-> "request", task |-> t,
                                                  existing |-> existing_size,
                                                  mem |-> 0, dirty |-> FALSE,
                                                  mode |-> "wb", next |-> 0,
                                                  restarts |-> 0, elapsed |-> 0,
                                                  success |-> FALSE,
                                                  seen |-> NoStats]]
                      /\ queue' = q
                      /\ UNCHANGED hist
    /\ UNCHANGED <<files, pq, config>>

\* Variant: the body is taken to start after the resume offset whatever
\* the response status.
FirstChunkKeepsOffset(existing_size, partial) == existing_size + 1

\* The first chunk the response body carries: a 206 starts after the
\* resume offset, a 200 at the beginning.
FirstChunk(existing_size, partial) == IF partial THEN existing_size + 1 ELSE 1

\* One pass of `while True` up to the opening of the file (lines 307-340).
WorkerRequest(w) ==
    /\ wk[w].pc = "request"
    /\ LET t == wk[w].task
           ex == wk[w].existing
           path == SavePath(t)
       IN IF t \notin Ids
          THEN /\ wk' = [wk EXCEPT ![w] = IdleWorker]
               /\ UNCHANGED <<tasks, files>>
          ELSE IF ex > 0 /\ honoursRange /\ ex >= total
          THEN \* 416: the HEAD probe either confirms the file is complete
               \* (return True, then lines 536-541) or fails and the loop
               \* restarts from zero.
               \/ /\ tasks' = [tasks EXCEPT ![t].status = COMPLETED,
                                            ![t].file_size = total,
                                            ![t].downloaded_bytes = ex]
                  /\ wk' = [wk EXCEPT ![w] = Counted(TRUE)]
                  /\ UNCHANGED files
               \/ /\ wk' = [wk EXCEPT ![w].existing = 0, ![w].mem = 0,
                                      ![w].dirty = TRUE,
                                      ![w].restarts = @ + 1]
                  /\ UNCHANGED <<tasks, files>>
          ELSE LET partial == ex > 0 /\ honoursRange
                   bytes == IF ex > 0 /\ ~honoursRange THEN 0
                            ELSE IF wk[w].dirty THEN wk[w].mem
                            ELSE tasks[t].downloaded_bytes
               IN /\ tasks' = [tasks EXCEPT ![t].file_size = total,
                                            ![t].downloaded_bytes = bytes]
                  /\ files' = IF partial THEN files
                              ELSE [files EXCEPT ![path] = <<>>]
                  /\ wk' = [wk EXCEPT ![w].pc = "stream",
                                      ![w].existing = IF partial THEN ex ELSE 0,
                                      ![w].mode = IF partial THEN "ab" ELSE "wb",
                                      ![w].next = FirstChunk(ex, partial),
                                      ![w].mem = 0, ![w].dirty = FALSE,
                                      ![w].elapsed = 0,
                                      ![w].restarts = IF ex > 0 /\ ~partial
                                                      THEN @ + 1 ELSE @]
    /\ UNCHANGED <<queue, pq, config, hist>>

\* f.write(chunk): 'ab' appends at the end of the file whatever its length;
\* 'wb' writes at the handle's own offset, filling a gap with zeros.
RECURSIVE Zeros(_)
Zeros(n) == IF n <= 0 THEN <<>> ELSE <<0>> \o Zeros(n - 1)

WriteChunk(f, mode, pos, c) ==
    IF mode = "ab" THEN Append(f, c)
    ELSE IF pos < Len(f) THEN [f EXCEPT ![pos + 1] = c]
    ELSE f \o Zeros(pos - Len(f)) \o <<c>>

\* Whether the checkpoint ends the transfer (line 346).
Interrupts(status) == status \in {PAUSED, CANCELLED}

\* The counter the chunk is added to: the refreshed or reloaded column when
\* the in-memory attribute is not dirty, else the in-memory value.
BytesBase(w, refresh) ==
    IF refresh \/ ~wk[w].dirty THEN tasks[wk[w].task].downloaded_bytes
    ELSE wk[w].mem

\* The throttle step (lines 356-360), with the cap global_speed_limit_kbps
\* at its default and no per-task cap. Time is counted in units of the time
\* one chunk takes at the cap, CHUNK_SIZE / (speed_limit * 1024) seconds,
\* so that `expected` is the counter minus existing_size, in chunks; the
\* result is the time elapsed since start_time after the sleep.
Throttle(elapsed, downloaded_bytes, existing_size) ==
    LET expected == downloaded_bytes - existing_size
    IN IF elapsed < expected THEN expected ELSE elapsed

\* One iteration of `for chunk in response.iter_bytes` (lines 341-373):
\* `refresh` says whether DB_REFRESH_INTERVAL has elapsed, `commit` whether
\* the one-second statistics sample is due.
WorkerChunk(w, refresh, commit, b) ==
    /\ wk[w].pc = "stream"
    /\ wk[w].next <= total
    /\ wk[w].task \in Ids => BytesBase(w, refresh) < b.bytes
    /\ LET t == wk[w].task
           path == IF t \in Ids THEN SavePath(t) ELSE <<0, "", 0>>
           written == [files EXCEPT ![path] =
                          WriteChunk(@, wk[w].mode, wk[w].next - 1, wk[w].next)]
       IN IF t \notin Ids
          THEN \* the row is gone: the next reload or flush raises
               /\ wk' = [wk EXCEPT ![w] = IdleWorker]
               /\ UNCHANGED <<tasks, files>>
          ELSE IF refresh /\ Interrupts(tasks[t].status)
          THEN /\ wk' = [wk EXCEPT ![w] = IdleWorker]      \* return False
               /\ UNCHANGED <<tasks, files>>
          ELSE LET bytes == BytesBase(w, refresh) + 1
               IN /\ files' = written
                  /\ IF commit
                     THEN /\ tasks' = [tasks EXCEPT ![t].downloaded_bytes = bytes]
                          /\ wk' = [wk EXCEPT ![w].next = @ + 1,
                                              ![w].mem = 0, ![w].dirty = FALSE,
                                              ![w].elapsed = Throttle(@, bytes, wk[w].existing)]
                     ELSE /\ UNCHANGED tasks
                          /\ wk' = [wk EXCEPT ![w].next = @ + 1,
                                              ![w].mem = bytes, ![w].dirty = TRUE,
                                              ![w].elapsed = Throttle(@, bytes, wk[w].existing)]
    /\ UNCHANGED <<queue, pq, config, hist>>

\* The body's next chunk is slow to arrive: a unit of time passes in
\* response.iter_bytes, up to `wait` units since start_time.
WorkerWait(w, wait) ==
    /\ wk[w].pc = "stream"
    /\ wk[w].next <= total
    /\ wk[w].elapsed < wait
    /\ wk' = [wk EXCEPT ![w].elapsed = @ + 1]
    /\ UNCHANGED <<tasks, files, queue, pq, config, hist>>

\* The status a successful transfer writes (line 537).
FinishedStatus == COMPLETED

\* The body is exhausted: return True, then lines 536-541.
WorkerFinish(w) ==
    /\ wk[w].pc = "stream"
    /\ wk[w].next > total
    /\ LET t == wk[w].task
       IN IF t \notin Ids THEN UNCHANGED tasks
          ELSE tasks' = [tasks EXCEPT
                   ![t].status = FinishedStatus,
                   ![t].downloaded_bytes = IF wk[w].dirty THEN wk[w].mem ELSE @]
    /\ wk' = [wk EXCEPT ![w] = IF wk[w].task \in Ids THEN Counted(TRUE)
                               ELSE IdleWorker]
    /\ UNCHANGED <<files, queue, pq, config, hist>>

\* An HTTP status error other than 416, a network error or a timeout, at
\* the request or in the middle of the body: the exception reaches the
\* except branch of download_media_task.
WorkerFail(w, b) ==
    /\ wk[w].pc \in {"request", "stream"}
    /\ wk[w].task \in Ids
    /\ tasks[wk[w].task].retry_count < MaxRetries
    /\ HandlerRetries(wk[w].task) => BagCardinality(queue) < b.queue
    /\ tasks' = HandlerTasks(wk[w].task)
    /\ queue' = HandlerQueue(wk[w].task, queue)
    /\ hist' = HandlerHist(wk[w].task)
    /\ wk' = [wk EXCEPT ![w] = IF HandlerRetries(wk[w].task) THEN IdleWorker
                               ELSE Counted(FALSE)]
    /\ UNCHANGED <<files, pq, config>>

\* The rest of update_daily_stats (lines 45-56): with no row at the query
\* a row is inserted, and the insert fails on the unique date when another
\* worker has inserted one since; else the flush updates the columns the
\* worker changed, with the values computed from the row it read. The
\* row counts up to `most` transfers.
WorkerStats(w, most) ==
    /\ wk[w].pc = "stats"
    /\ stats.total_downloads < most
    /\ LET seen == wk[w].seen
           ok == IF wk[w].success THEN 1 ELSE 0
       IN stats' =
            IF ~seen.exists
            THEN IF stats.exists THEN stats
                 ELSE [exists |-> TRUE, total_downloads |-> 1,
                       completed_downloads |-> ok, failed_downloads |-> 1 - ok]
            ELSE IF wk[w].success
            THEN [stats EXCEPT !.total_downloads = seen.total_downloads + 1,
                               !.completed_downloads = seen.completed_downloads + 1]
            ELSE [stats EXCEPT !.total_downloads = seen.total_downloads + 1,
                               !.failed_downloads = seen.failed_downloads + 1]
    /\ wk' = [wk EXCEPT ![w] = IdleWorker]
    /\ UNCHANGED <<tasks, files, queue, pq, download_mode, honoursRange, total,
                   max_retries, max_parallel_downloads, retry_delay_base_seconds,
                   auto_cleanup_enabled, now, monitored, quiet_hours_start,
                   quiet_hours_end, pause_during_quiet_hours, hist>>

\* ------------------------------------------------------ check_auto_downloads

\* Step 1, recovery: every DOWNLOADING row goes back to PENDING.
Recovered(row) ==
    IF row.status = DOWNLOADING
    THEN [row EXCEPT !.status = PENDING, !.error_message = "recovery"]
    ELSE row

\* Variant: the sweep does not look at the status.
SweptAnyStatus(oldC, oldF) ==
    IF ~auto_cleanup_enabled THEN {} ELSE Ids \cap (oldC \cup oldF)

\* cleanup_old_tasks: the rows the retention sweep deletes. oldC are the rows
\* with completed_at before now - keep_completed_days, oldF the rows with
\* created_at before now - keep_failed_days (the clock is the environment's).
Swept(oldC, oldF) ==
    IF ~auto_cleanup_enabled THEN {}
    ELSE {t \in Ids : \/ tasks[t].status = COMPLETED /\ t \in oldC
                      \/ tasks[t].status = FAILED /\ t \in oldF}

RECURSIVE Discover(_, _)

\* _process_auto_downloads_sync: for every listed media k = (source, kind,
\* id) whose id is not the media_id of a row of the source in the table T
\* (existing_ids, whatever the media kind and the status), a PENDING row is
\* added.
Discover(T, todo) ==
    IF todo = {} THEN T
    ELSE LET k == CHOOSE x \in todo : TRUE
             id == IF DOMAIN T = {} THEN 1 ELSE Max(DOMAIN T) + 1
         IN IF \E t \in DOMAIN T : T[t].subscription_id = k[1] /\ T[t].media_id = k[3]
            THEN Discover(T, todo \ {k})
            ELSE Discover(Insert(T, id, NewRow(k[1], k[2], k[3])), todo \ {k})

\* The whole job: recovery, retention sweep, discovery. The rowids stay
\* within DiscoverTasks.
Maintenance(oldC, oldF) ==
    LET kept == Remove([t \in Ids |-> Recovered(tasks[t])], Swept(oldC, oldF))
        keptHist == Remove([t \in Ids |-> IF tasks[t].status = DOWNLOADING
                                          THEN [hist[t] EXCEPT !.adm = 0]
                                          ELSE hist[t]], Swept(oldC, oldF))
        after == Discover(kept, monitored)
    IN /\ \A t \in DOMAIN after : t <= DiscoverTasks
       /\ tasks' = after
       /\ hist' = [t \in DOMAIN after |->
                     IF t \in DOMAIN kept /\ after[t] = kept[t]
                     THEN keptHist[t] ELSE NewHist]
       /\ UNCHANGED <<files, queue, wk, pq, config>>

\* add_monitored_media / remove_monitored_media, seen through the catalog:
\* media k is, or is no longer, listed for an active MonitoredMedia row.
AddMonitored(k) ==
    /\ k \notin monitored
    /\ monitored' = monitored \cup {k}
    /\ UNCHANGED <<tasks, files, queue, wk, pq, download_mode, honoursRange, total,
                   max_retries, max_parallel_downloads, retry_delay_base_seconds,
                   auto_cleanup_enabled, now, quiet_hours_start, quiet_hours_end,
                   pause_during_quiet_hours, stats, hist>>

RemoveMonitored(k) ==
    /\ k \in monitored
    /\ monitored' = monitored \ {k}
    /\ UNCHANGED <<tasks, files, queue, wk, pq, download_mode, honoursRange, total,
                   max_retries, max_parallel_downloads, retry_delay_base_seconds,
                   auto_cleanup_enabled, now, quiet_hours_start, quiet_hours_end,
                   pause_during_quiet_hours, stats, hist>>

\* update_global_settings, for the one setting the modelled jobs read anew
\* each run and that a specification varies.
UpdateSettings(enabled) ==
    /\ auto_cleanup_enabled # enabled
    /\ auto_cleanup_enabled' = enabled
    /\ UNCHANGED <<tasks, files, queue, wk, pq, download_mode, honoursRange, total,
                   max_retries, max_parallel_downloads, retry_delay_base_seconds,
                   now, monitored, quiet_hours_start, quiet_hours_end,
                   pause_during_quiet_hours, stats, hist>>

\* ------------------------------------------------------------------- clock

\* Time passes, one retry base delay at a time, up to the horizon.
Tick(horizon) ==
    /\ now < horizon
    /\ now' = now + RetryDelaySeconds
    /\ UNCHANGED <<tasks, files, queue, wk, pq, download_mode, honoursRange, total,
                   max_retries, max_parallel_downloads, retry_delay_base_seconds,
                   auto_cleanup_enabled, monitored, quiet_hours_start,
                   quiet_hours_end, pause_during_quiet_hours, stats, hist>>

\* The clock moves on by `hours` hours, up to `days` days.
Pass(hours, days) ==
    /\ now + hours * 60 * 60 < days * 24 * 60 * 60
    /\ now' = now + hours * 60 * 60
    /\ UNCHANGED <<tasks, files, queue, wk, pq, download_mode, honoursRange, total,
                   max_retries, max_parallel_downloads, retry_delay_base_seconds,
                   auto_cleanup_enabled, monitored, quiet_hours_start,
                   quiet_hours_end, pause_during_quiet_hours, stats, hist>>

\* datetime.strptime(s, "%H:%M").time(), in seconds since midnight, for the
\* strings the settings take here; any other string does not parse.
ParseTime ==
    [s \in {"00:00", "08:00", "22:00"} |->
        CASE s = "00:00" -> 0
          [] s = "08:00" -> 8 * 60 * 60
          [] s = "22:00" -> 22 * 60 * 60]

\* datetime.now().time(), in seconds since midnight.
TimeOfDay == now % (24 * 60 * 60)

\* is_quiet_hours: whether the clock is inside the configured window; a
\* window whose start is after its end wraps past midnight.
is_quiet_hours ==
    IF quiet_hours_start = "" \/ quiet_hours_end = "" THEN FALSE
    ELSE IF quiet_hours_start \notin DOMAIN ParseTime
            \/ quiet_hours_end \notin DOMAIN ParseTime THEN FALSE
    ELSE LET start == ParseTime[quiet_hours_start]
             end == ParseTime[quiet_hours_end]
         IN IF start <= end
            THEN start <= TimeOfDay /\ TimeOfDay <= end
            ELSE TimeOfDay >= start \/ TimeOfDay <= end

\* -------------------------------------------------------------------- next

\* The endpoints a user calls.
UserNext(K, b) ==
    \/ \E k \in K : Enqueue(k[1], k[2], k[3], b)
    \/ \E t \in Ids : Retry(t)
    \/ \E t \in Ids : Pause(t)
    \/ \E t \in Ids : Resume(t)

WorkerNext(W, b) ==
    \/ \E w \in W : \E m \in BagToSet(queue) : WorkerStart(w, m)
    \/ \E w \in W : WorkerRequest(w)
    \/ \E w \in W : \E refresh, commit \in BOOLEAN : WorkerChunk(w, refresh, commit, b)
    \/ \E w \in W : WorkerFinish(w)
    \/ \E w \in W : WorkerFail(w, b)

ProcNext(P, b) ==
    \/ \E p \in P : ProcQuery(p)
    \/ \E p \in P : ProcPromote(p, b)

\* The rows a run of the job can delete at all; a run with the sets (oldC,
\* oldF) deletes what a run with (old, old) deletes, old being its finished
\* rows that are old enough.
Finished == {t \in Ids : tasks[t].status \in {COMPLETED, FAILED}}

MaintenanceNext == \E old \in SUBSET Finished : Maintenance(old, old)

\* The steps of a system with pool processes W, queue-processor runs P,
\* media items K requested by users, and the bounds b: rowids up to b.tasks
\* and b.queue messages, downloaded_bytes up to b.bytes.
Step(W, P, K, b) ==
    \/ UserNext(K, b)
    \/ WorkerNext(W, b)
    \/ ProcNext(P, b)
    \/ MaintenanceNext

\* The same system when users only enqueue and the hourly job does not
\* run: enqueues, queue-processor runs, deliveries and worker steps.
QueueStep(W, P, K, b) ==
    \/ \E k \in K : Enqueue(k[1], k[2], k[3], b)
    \/ WorkerNext(W, b)
    \/ ProcNext(P, b)

\* The same system when users also cancel and use the batch endpoints.
CancelStep(W, P, K, b) ==
    \/ Step(W, P, K, b)
    \/ \E t \in Ids : \E kill \in W \cup {0} : Cancel(t, kill)
    \/ \E D \in SUBSET Ids : BatchDelete(D)
    \/ \E D \in SUBSET Ids : BatchRetry(D)
    \/ \E D \in SUBSET Ids : BatchPause(D)
    \/ \E D \in SUBSET Ids : BatchResume(D)

\* The same system when the retention settings are changed as it runs.
SweepStep(W, P, K, b) ==
    \/ Step(W, P, K, b)
    \/ \E oldC, oldF \in SUBSET Ids : Maintenance(oldC, oldF)
    \/ \E enabled \in BOOLEAN : UpdateSettings(enabled)

\* The same system with the clock running.
TimedStep(W, P, K, b) ==
    \/ Step(W, P, K, b)
    \/ Tick(b.horizon)

\* The same system over a day: the wall clock moves through the quiet hours.
QuietStep(W, P, K, b) ==
    \/ Step(W, P, K, b)
    \/ Pass(b.hours, b.days)

\* The same system with a network that may be slower than the speed cap.
ThrottleStep(W, P, K, b) ==
    \/ Step(W, P, K, b)
    \/ \E w \in W : WorkerWait(w, b.wait)

\* Enqueues, queue-processor runs and workers over the days: the workers
\* update the statistics of the day.
StatsStep(W, P, K, b) ==
    \/ QueueStep(W, P, K, b)
    \/ \E w \in W : WorkerStats(w, b.most)
    \/ Pass(b.hours, b.days)

\* The whole system with cancel and the batch operations over the days,
\* the workers updating the statistics.
StaleStep(W, P, K, b) ==
    \/ CancelStep(W, P, K, b)
    \/ \E w \in W : WorkerStats(w, b.most)
    \/ Pass(b.hours, b.days)

\* The same system with monitored media: the hourly job discovers them.
DiscoverStep(W, P, K, b) ==
    \/ Step(W, P, K, b)
    \/ \E k \in K : AddMonitored(k)
    \/ \E k \in K : RemoveMonitored(k)
    \/ \E oldC, oldF \in SUBSET Ids : Maintenance(oldC, oldF)

\* The rows and the queue processor alone: enqueues, priority and schedule
\* writes and queue-processor runs; the dispatched messages stay in the
\* broker. The selection reads nothing but the PENDING and DOWNLOADING rows.
OrderStep(P, K, b) ==
    \/ \E k \in K : Enqueue(k[1], k[2], k[3], b)
    \/ \E t \in Ids : \E priority \in Priorities : UpdatePriority(t, priority)
    \/ \E t \in Ids : \E later \in BOOLEAN : SetScheduledStart(t, later)
    \/ ProcNext(P, b)

OneItem == {<<1, "movie", 1>>}
TwoItems == {<<1, "movie", 1>>, <<1, "episode", 1>>}
ThreeItems == {<<1, "movie", 1>>, <<1, "movie", 2>>, <<1, "episode", 1>>}

Init == InitWith("parallel", TRUE, SchedChunks, SchedRetries, SchedParallel, default_retry_delay_base_seconds)

Next == Step({1}, {1}, TwoItems, [tasks |-> SchedTasks, queue |-> SchedQueue, bytes |-> SchedBytes])

Spec == Init /\ [][Next]_vars

InitSeq == InitWith("sequential", TRUE, SeqChunks, SeqRetries, SchedParallel, default_retry_delay_base_seconds)

NextSeq == QueueStep({1}, {1}, TwoItems, [tasks |-> SeqTasks, queue |-> SeqQueue, bytes |-> SeqBytes])

SpecSeq == InitSeq /\ [][NextSeq]_vars

InitDup == InitWith("parallel", TRUE, DupChunks, DupRetries, DupParallel, default_retry_delay_base_seconds)

NextDup == Step({1}, {1}, OneItem, [tasks |-> DupTasks, queue |-> DupQueue, bytes |-> DupBytes])

SpecDup == InitDup /\ [][NextDup]_vars

InitRetry ==
    \E base \in {default_retry_delay_base_seconds, RetryBaseConfigured} :
        InitWith("parallel", TRUE, RetryChunks, default_max_retries, SchedParallel, base)

NextRetry == Step({1}, {1}, OneItem, [tasks |-> RetryTasks, queue |-> RetryQueue, bytes |-> RetryBytes])

SpecRetry == InitRetry /\ [][NextRetry]_vars

InitRace == InitWith("parallel", TRUE, RaceChunks, RaceRetries, SchedParallel, default_retry_delay_base_seconds)

NextRace == Step(Workers, {1}, OneItem, [tasks |-> RaceTasks, queue |-> RaceQueue, bytes |-> RaceBytes])

SpecRace == InitRace /\ [][NextRace]_vars

InitAdmit == InitWith("parallel", TRUE, AdmitChunks, AdmitRetries, SchedParallel, default_retry_delay_base_seconds)

NextAdmit == Step({1}, Procs, OneItem, [tasks |-> AdmitTasks, queue |-> AdmitQueue, bytes |-> AdmitBytes])

SpecAdmit == InitAdmit /\ [][NextAdmit]_vars

InitOrder ==
    \E slots \in {1, 2} :
        InitWith("parallel", TRUE, OrderChunks, OrderRetries, slots, default_retry_delay_base_seconds)

NextOrder == OrderStep({1}, ThreeItems, [tasks |-> OrderTasks, queue |-> OrderQueue, bytes |-> 1])

SpecOrder == InitOrder /\ [][NextOrder]_vars

InitOrderSeq == InitWith("sequential", TRUE, OrderChunks, OrderRetries, SchedParallel, default_retry_delay_base_seconds)

SpecOrderSeq == InitOrderSeq /\ [][NextOrder]_vars

InitCancel == InitWith("parallel", TRUE, CancelChunks, CancelRetries, SchedParallel, default_retry_delay_base_seconds)

NextCancel == CancelStep({1}, {1}, OneItem, [tasks |-> CancelTasks, queue |-> CancelQueue, bytes |-> CancelBytes])

SpecCancel == InitCancel /\ [][NextCancel]_vars

InitSweep == InitWith("parallel", TRUE, SweepChunks, SweepRetries, SchedParallel, default_retry_delay_base_seconds)

NextSweep == SweepStep({1}, {1}, OneItem, [tasks |-> SweepTasks, queue |-> SweepQueue, bytes |-> SweepBytes])

SpecSweep == InitSweep /\ [][NextSweep]_vars

InitBackoff == InitWith("parallel", TRUE, BackoffChunks, BackoffRetries, SchedParallel, default_retry_delay_base_seconds)

NextBackoff == TimedStep({1}, {1}, OneItem, [tasks |-> BackoffTasks, queue |-> BackoffQueue, bytes |-> BackoffBytes, horizon |-> BackoffHorizon])

SpecBackoff == InitBackoff /\ [][NextBackoff]_vars

InitDiscover == InitWith("parallel", TRUE, DiscoverChunks, DiscoverRetries, SchedParallel, default_retry_delay_base_seconds)

NextDiscover == DiscoverStep({1}, {1}, OneItem, [tasks |-> DiscoverTasks, queue |-> DiscoverQueue, bytes |-> DiscoverBytes])

SpecDiscover == InitDiscover /\ [][NextDiscover]_vars

InitNoRange == InitWith("parallel", FALSE, NoRangeChunks, NoRangeRetries, SchedParallel, default_retry_delay_base_seconds)

NextNoRange == Step({1}, {1}, OneItem, [tasks |-> NoRangeTasks, queue |-> NoRangeQueue, bytes |-> NoRangeBytes])

SpecNoRange == InitNoRange /\ [][NextNoRange]_vars

InitXfer == InitWith("parallel", TRUE, XferChunks, XferRetries, SchedParallel, default_retry_delay_base_seconds)

NextXfer == Step({1}, {1}, OneItem, [tasks |-> XferTasks, queue |-> XferQueue, bytes |-> XferBytes])

SpecXfer == InitXfer /\ [][NextXfer]_vars

\* A day with a quiet-hours window that is unset, inside one day, or wraps
\* past midnight, with pausing during quiet hours on or off.
InitQuiet ==
    \E qstart \in {"", "00:00", "22:00"}, qpause \in BOOLEAN :
        InitState("parallel", TRUE, QuietChunks, QuietRetries, SchedParallel,
                  default_retry_delay_base_seconds, qstart, "08:00", qpause)

NextQuiet == QuietStep({1}, {1}, OneItem, [tasks |-> QuietTasks, queue |-> QuietQueue, bytes |-> QuietBytes, hours |-> QuietHours, days |-> QuietDays])

SpecQuiet == InitQuiet /\ [][NextQuiet]_vars

InitThrottle == InitWith("parallel", TRUE, ThrottleChunks, ThrottleRetries, SchedParallel, default_retry_delay_base_seconds)

NextThrottle == ThrottleStep({1}, {1}, OneItem, [tasks |-> ThrottleTasks, queue |-> ThrottleQueue, bytes |-> ThrottleBytes, wait |-> ThrottleWait])

SpecThrottle == InitThrottle /\ [][NextThrottle]_vars

InitStats == InitWith("parallel", TRUE, StatsChunks, StatsRetries, StatsParallel, default_retry_delay_base_seconds)

NextStats == StatsStep(Workers, {1}, ThreeItems, [tasks |-> StatsTasks, queue |-> StatsQueue, bytes |-> StatsBytes, most |-> StatsMax, hours |-> 24, days |-> StatsDays])

SpecStats == InitStats /\ [][NextStats]_vars

InitStale == InitWith("parallel", TRUE, StaleChunks, StaleRetries, SchedParallel, default_retry_delay_base_seconds)

NextStale == StaleStep({1}, Procs, OneItem, [tasks |-> StaleTasks, queue |-> StaleQueue, bytes |-> StaleBytes, most |-> StaleMax, hours |-> 24, days |-> StatsDays])

SpecStale == InitStale /\ [][NextStale]_vars

\* ------------------------------------------------------------------ claims

SameMedia(t, u) ==
    /\ tasks[t].subscription_id = tasks[u].subscription_id
    /\ tasks[t].media_type = tasks[u].media_type
    /\ tasks[t].media_id = tasks[u].media_id

\* C1: in parallel mode the number of DOWNLOADING tasks of a source never
\* exceeds that source's max_parallel_downloads.
C1_SourceLimit ==
    download_mode = "parallel" =>
        \A sub \in Subs : Cardinality(Downloading(sub)) <= MaxParallelOf(sub)

\* C2: in sequential mode at most one task, over all sources, is
\* DOWNLOADING.
C2_SingleFlight ==
    download_mode = "sequential" =>
        Cardinality({t \in Ids : tasks[t].status = DOWNLOADING}) <= 1

\* C3: no two worker invocations are inside the transfer loop of the same
\* task at the same time.
C3_OneTransferPerTask ==
    \A w1, w2 \in Workers :
        (w1 # w2 /\ wk[w1].pc = "stream" /\ wk[w2].pc = "stream")
            => wk[w1].task # wk[w2].task

\* C4: a task is promoted and dispatched by at most one queue-processor run
\* between two of its returns to PENDING.
C4_PromotedOnce == \A t \in Ids : hist[t].adm <= 1

\* C5: a task that ended FAILED was re-dispatched max_retries times, the
\* n-th time with a countdown of retry_delay_base_seconds * 2^(n-1).
C5_RetrySchedule ==
    \A t \in Ids :
        tasks[t].status = FAILED =>
            hist[t].delays = [n \in 1..MaxRetries |->
                                  retry_delay_base_seconds * Pow2(n - 1)]

\* C6: only the user's Retry lowers retry_count, and only the user's Retry
\* moves a task out of FAILED.
C6_FailedIsFinal ==
    [][\A t \in Ids \cap DOMAIN tasks' :
          \/ Retry(t)
          \/ /\ tasks'[t].retry_count >= tasks[t].retry_count
             /\ tasks[t].status = FAILED => tasks'[t].status = FAILED]_vars

\* C7: no two tasks of the same source, media kind and media id are both
\* PENDING, DOWNLOADING or PAUSED.
C7_OneOpenTaskPerMedia ==
    \A t, u \in Ids :
        (t # u /\ SameMedia(t, u))
            => ~ /\ tasks[t].status \in {PENDING, DOWNLOADING, PAUSED}
                 /\ tasks[u].status \in {PENDING, DOWNLOADING, PAUSED}

\* C8: no two tasks of the same source and media item are both DOWNLOADING.
C8_OneDownloadPerMedia ==
    \A t, u \in Ids :
        (t # u /\ SameMedia(t, u))
            => ~(tasks[t].status = DOWNLOADING /\ tasks[u].status = DOWNLOADING)

\* C9: a PAUSED task stays PAUSED until the user resumes or retries it.
C9_PausedStays ==
    [][\A t \in Ids \cap DOMAIN tasks' :
          tasks[t].status = PAUSED =>
              \/ tasks'[t].status = PAUSED
              \/ Resume(t)
              \/ Retry(t)]_vars

\* C10: when an attempt that resumed a partial file (append mode) ends with
\* success, the file is the full remote content and downloaded_bytes is the
\* total size.
C10_ResumeCompletes ==
    [][\A w \in Workers :
          (/\ wk[w].pc = "stream"
           /\ wk[w].mode = "ab"
           /\ wk[w].next > total
           /\ wk[w].task \in Ids
           /\ wk'[w].pc = "idle"
           /\ tasks'[wk[w].task].status = COMPLETED)
            => /\ files'[SavePath(wk[w].task)] = Full
               /\ tasks'[wk[w].task].downloaded_bytes = total]_vars

\* C11: with a remote that ignores Range, an attempt that finds a partial
\* file restarts from zero once (downloaded_bytes 0, file emptied, body
\* written from its first chunk), never restarts a second time, and when the
\* body is exhausted the task is COMPLETED with the full content on disk.
C11_RangeIgnoredRestart ==
    [][\A w \in Workers :
          LET t == wk[w].task
          IN /\ wk'[w].restarts <= 1
             /\ (/\ ~honoursRange
                 /\ wk[w].pc = "request" /\ wk'[w].pc = "stream"
                 /\ wk[w].existing > 0)
                 => /\ wk'[w].restarts = 1
                    /\ wk'[w].next = 1
                    /\ tasks'[t].downloaded_bytes = 0
                    /\ files'[SavePath(t)] = <<>>
             /\ (/\ ~honoursRange
                 /\ WorkerFinish(w)
                 /\ wk[w].restarts = 1
                 /\ t \in Ids)
                 => /\ tasks'[t].status = COMPLETED
                    /\ files'[SavePath(t)] = Full]_vars

\* A restarted attempt has written the whole body and is about to return.
C11_Witness ==
    \E w \in Workers :
        /\ ~honoursRange
        /\ wk[w].pc = "stream" /\ wk[w].restarts = 1 /\ wk[w].next > total
        /\ wk[w].task \in Ids
        /\ files[SavePath(wk[w].task)] = Full

\* (priority descending, created_at ascending): a is served before b.
Precedes(a, b) ==
    \/ tasks[a].priority > tasks[b].priority
    \/ tasks[a].priority = tasks[b].priority /\ a < b

Eligible(t) == tasks[t].status = PENDING /\ ~tasks[t].sched

\* C12: in parallel mode the rows a run selects for a source are in
\* (priority descending, created_at ascending) order and each of them
\* precedes every PENDING row of the source the run leaves out; the run
\* promotes the rows it selected, in that order, and only rows whose
\* scheduled start is not in the future.
C12_PriorityOrder ==
    [][/\ \A p \in Procs :
            (download_mode = "parallel" /\ ProcQuery(p)) =>
                LET sub == pq[p].sub + 1
                    sel == pq'[p].sel
                    S == {sel[i] : i \in 1..Len(sel)}
                IN /\ \A i, j \in 1..Len(sel) : i < j => Precedes(sel[i], sel[j])
                   /\ \A a \in S : \A b \in PendingOf(sub) \ S : Precedes(a, b)
                   /\ S \subseteq PendingOf(sub)
                   /\ Len(sel) = Min2(Cardinality(PendingOf(sub)),
                                      MaxParallelOf(sub) - Cardinality(Downloading(sub)))
       /\ \A t \in Ids \cap DOMAIN tasks' :
            (download_mode = "parallel"
             /\ tasks[t].status # DOWNLOADING /\ tasks'[t].status = DOWNLOADING) =>
                /\ ~tasks[t].sched
                /\ \E p \in Procs : pq[p].pc = "promote" /\ Head(pq[p].sel) = t]_vars

\* One free slot, PENDING rows of priority 1, 5 and 10: the run has selected
\* the row of priority 10.
C12_Witness ==
    /\ download_mode = "parallel"
    /\ max_parallel_downloads = 1
    /\ \E a, b, c \in Ids :
          /\ tasks[a].priority = 10 /\ tasks[b].priority = 5 /\ tasks[c].priority = 1
          /\ Eligible(a) /\ Eligible(b) /\ Eligible(c)
          /\ a > b /\ a > c
          /\ \E p \in Procs : pq[p].pc = "promote" /\ pq[p].sel = <<a>>

\* C13: in sequential mode a run that finds no task DOWNLOADING selects
\* exactly the eligible PENDING row that is first in (priority descending,
\* created_at ascending) order; rows scheduled for later are passed over.
C13_SequentialOrder ==
    [][\A p \in Procs :
          (/\ download_mode = "sequential"
           /\ ProcQuery(p)
           /\ \A t \in Ids : tasks[t].status # DOWNLOADING) =>
              LET El == {t \in Ids : Eligible(t)}
              IN El # {} =>
                    \E a \in El : /\ \A b \in El \ {a} : Precedes(a, b)
                                  /\ pq'[p].sel = <<a>>]_vars

\* C13, the tie-break alone: with no row scheduled for later, the row a
\* sequential run selects is the oldest of the rows of highest priority.
C13_OldestOfEqualPriority ==
    [][\A p \in Procs :
          (/\ download_mode = "sequential"
           /\ ProcQuery(p)
           /\ \A t \in Ids : tasks[t].status # DOWNLOADING /\ ~tasks[t].sched) =>
              \A a \in Ids : pq'[p].sel = <<a>> =>
                  \A b \in Ids \ {a} : Eligible(b) => Precedes(a, b)]_vars

\* C13, the schedule alone: a row scheduled for later does not keep a
\* sequential run from selecting an eligible row.
C13_ScheduledDoesNotBlock ==
    [][\A p \in Procs :
          (/\ download_mode = "sequential"
           /\ pq[p].pc = "promote" /\ pq'[p].pc = "idle"
           /\ \E t \in Ids : Eligible(t))
              => \E t \in Ids : tasks'[t].status = DOWNLOADING]_vars

\* C14: a row that is COMPLETED or CANCELLED keeps that status for as long
\* as it exists, whatever operation runs.
C14_TerminalStays ==
    [][\A t \in Ids \cap DOMAIN tasks' :
          tasks[t].status \in {COMPLETED, CANCELLED} =>
              tasks'[t].status = tasks[t].status]_vars

\* C14, for CANCELLED alone.
C14_CancelledStays ==
    [][\A t \in Ids \cap DOMAIN tasks' :
          tasks[t].status = CANCELLED => tasks'[t].status = CANCELLED]_vars

\* C14, for the worker alone: a worker step never moves a row out of
\* CANCELLED.
C14_WorkerKeepsCancelled ==
    [][\A t \in Ids \cap DOMAIN tasks' :
          (/\ tasks[t].status = CANCELLED
           /\ \E w \in Workers : wk'[w] # wk[w])
              => tasks'[t].status = CANCELLED]_vars

\* C15: after the cancel of a DOWNLOADING task neither the task's record
\* nor its partial file remains.
C15_CancelRemovesFileAndRecord ==
    [][\A t \in Ids : \A kill \in Workers \cup {0} :
          (tasks[t].status = DOWNLOADING /\ Cancel(t, kill)) =>
              /\ t \notin DOMAIN tasks'
              /\ files'[SavePath(t)] = <<>>]_vars

\* C15, the record alone.
C15_CancelRemovesRecord ==
    [][\A t \in Ids : \A kill \in Workers \cup {0} :
          (tasks[t].status = DOWNLOADING /\ Cancel(t, kill)) =>
              t \notin DOMAIN tasks']_vars

\* C15, the file alone: the cancel of a DOWNLOADING task whose worker wrote
\* a partial file leaves no file.
C15_CancelRemovesFile ==
    [][\A t \in Ids : \A kill \in Workers \cup {0} :
          (tasks[t].status = DOWNLOADING /\ Cancel(t, kill)) =>
              files'[SavePath(t)] = <<>>]_vars

LiveOn(w, t) == wk[w].pc # "idle" /\ wk[w].task = t

\* C16: the hourly job leaves DOWNLOADING a task whose worker is in the
\* middle of the transfer.
C16_RecoveryKeepsLive ==
    [][\A t \in Ids \cap DOMAIN tasks' :
          (/\ tasks[t].status = DOWNLOADING
           /\ \E w \in Workers : LiveOn(w, t)
           /\ \E oldC, oldF \in SUBSET Ids : Maintenance(oldC, oldF))
              => tasks'[t].status = DOWNLOADING]_vars

\* C17: a row the hourly job deletes was COMPLETED with completed_at before
\* the completed-retention limit or FAILED with created_at before the
\* failed-retention limit, and auto-cleanup was enabled.
C17_SweepOnlyOldFinished ==
    [][\A t \in Ids \ DOMAIN tasks' :
          \A oldC, oldF \in SUBSET Ids :
              Maintenance(oldC, oldF) =>
                  /\ auto_cleanup_enabled
                  /\ tasks[t].status \in {COMPLETED, FAILED}
                  /\ tasks[t].status = COMPLETED => t \in oldC
                  /\ tasks[t].status = FAILED => t \in oldF]_vars

\* Row 1 is gone and row 2 is still there: the sweep (the one operation of
\* SpecSweep that deletes rows) deleted the finished row 1 and kept row 2,
\* which was not finished.
C17_Witness ==
    /\ auto_cleanup_enabled
    /\ Ids = {2}
    /\ files[<<1, "movie", 1>>] = Full
    /\ tasks[2].status \in {PENDING, DOWNLOADING, PAUSED}

\* C18: while a row stays DOWNLOADING its downloaded_bytes does not
\* decrease, except that the attempt's request may reset it to 0 when the
\* remote did not serve the requested range (a 200 for a Range request, or
\* a 416); an attempt has one such step.
C18_BytesMonotone ==
    [][\A t \in Ids \cap DOMAIN tasks' :
          (/\ tasks[t].status = DOWNLOADING
           /\ tasks'[t].status = DOWNLOADING
           /\ tasks'[t].downloaded_bytes < tasks[t].downloaded_bytes)
              => /\ tasks'[t].downloaded_bytes = 0
                 /\ \E w \in Workers :
                       /\ wk[w].task = t
                       /\ wk[w].pc = "request" /\ wk'[w].pc = "stream"
                       /\ wk'[w].restarts = 1]_vars

\* The outcomes the retry handler may leave a task in.
Rearmed(t) ==
    /\ tasks'[t].status = PENDING
    /\ tasks'[t].next_retry_at # 0
    /\ BagIn(Msg(t), queue')

FailedWithError(t) ==
    /\ tasks'[t].status = FAILED
    /\ tasks'[t].error_message # "none"

\* The ways an invocation on task t ends that the claim sets aside: the
\* transfer succeeded, the checkpoint saw PAUSED or CANCELLED, or the
\* user's cancel terminated the process.
EndsInSuccess(w, t) ==
    \/ WorkerFinish(w)
    \/ wk[w].pc = "request" /\ tasks'[t].status = COMPLETED /\ queue' = queue

EndsOnUserAction(w, t) ==
    \/ wk[w].pc = "stream" /\ Interrupts(tasks[t].status) /\ tasks' = tasks
    \/ Cancel(t, w)

C20_BackoffObserved ==
    [][\A t \in Ids \cap DOMAIN tasks' :
          (/\ tasks[t].status = PENDING
           /\ tasks[t].next_retry_at > now
           /\ \E p \in Procs : pq[p].pc = "promote" /\ pq'[p] # pq[p])
              => tasks'[t].status # DOWNLOADING]_vars

\* C21: a row becomes DOWNLOADING only from PENDING, only when its source
\* has a free slot at that moment (in sequential mode: nothing is
\* DOWNLOADING) and only when it is not scheduled for later.
C21_AdmissionOnly ==
    [][\A t \in Ids \cap DOMAIN tasks' :
          (tasks[t].status # DOWNLOADING /\ tasks'[t].status = DOWNLOADING) =>
              /\ tasks[t].status = PENDING
              /\ ~tasks[t].sched
              /\ IF download_mode = "sequential"
                 THEN \A u \in Ids : tasks[u].status # DOWNLOADING
                 ELSE Cardinality(Downloading(tasks[t].subscription_id))
                          < MaxParallelOf(tasks[t].subscription_id)]_vars

\* C21, the worker alone: no step moves a PAUSED or FAILED row to
\* DOWNLOADING.
C21_WorkerNeverRevives ==
    [][\A t \in Ids \cap DOMAIN tasks' :
          tasks[t].status \in {PAUSED, FAILED} => tasks'[t].status # DOWNLOADING]_vars

\* C22: in parallel mode a run that finds `available` > 0 free slots for a
\* source selects for promotion min(available, number of eligible PENDING
\* rows of the source) rows: rows scheduled for later use up no slot.
C22_ScheduledUseNoSlot ==
    [][\A p \in Procs :
          (download_mode = "parallel" /\ ProcQuery(p)) =>
              LET sub == pq[p].sub + 1
                  available == MaxParallelOf(sub) - Cardinality(Downloading(sub))
                  eligible == {t \in PendingOf(sub) : ~tasks[t].sched}
                  sel == pq'[p].sel
                  promoted == {i \in 1..Len(sel) : ~tasks[sel[i]].sched}
              IN available > 0 =>
                    Cardinality(promoted) = Min2(available, Cardinality(eligible))]_vars

\* C23: a row that becomes COMPLETED with a known file_size has
\* downloaded_bytes equal to file_size.
C23_CompletedMeansAllBytes ==
    [][\A t \in Ids \cap DOMAIN tasks' :
          (/\ tasks[t].status # COMPLETED
           /\ tasks'[t].status = COMPLETED
           /\ tasks'[t].file_size # 0)
              => tasks'[t].downloaded_bytes = tasks'[t].file_size]_vars

\* C23, the file: a row becomes COMPLETED only with the remote content on
\* disk, no more and no less.
C23_CompletedMeansFullFile ==
    [][\A t \in Ids \cap DOMAIN tasks' :
          (tasks[t].status # COMPLETED /\ tasks'[t].status = COMPLETED)
              => Len(files'[SavePath(t)]) = total]_vars

\* C24: every COMPLETED row has an empty error_message.
C24_CompletedHasNoError ==
    \A t \in Ids : tasks[t].status = COMPLETED => tasks[t].error_message = "none"

\* The step of a delivered invocation in which _resolve_target_path raises:
\* the message for t is taken, no transfer starts (the pool process is free
\* again at once) and the except branch has run on the row.
ResolutionFails(t) ==
    /\ BagIn(Msg(t), queue)
    /\ ~Returns(t)
    /\ \E w \in Workers : wk[w].pc = "idle"
    /\ wk' = wk
    /\ tasks' = HandlerTasks(t)

\* C25: when the path resolution of a task fails the task is FAILED at
\* once: retry_count is not incremented and no delayed dispatch is added.
C25_ResolutionErrorIsFinal ==
    [][\A t \in Ids :
          ResolutionFails(t) =>
              /\ tasks'[t].status = FAILED
              /\ tasks'[t].error_message # "none"
              /\ tasks'[t].retry_count = tasks[t].retry_count
              /\ ~BagIn(Msg(t), queue')]_vars

RowsOf(T, k) ==
    {t \in DOMAIN T : T[t].subscription_id = k[1] /\ T[t].media_id = k[3]}

\* C26: a run of the hourly job adds no row for a media item of a source
\* that had a row when the run began, whatever the status of that row.
C26_DiscoveryAddsNoDuplicate ==
    [][\A k \in monitored :
          (RowsOf(tasks, k) # {} /\ tasks' # tasks) =>
              \A oldC, oldF \in SUBSET Ids :
                  Maintenance(oldC, oldF) =>
                      Cardinality(RowsOf(tasks', k))
                          <= Cardinality(RowsOf(tasks, k) \ Swept(oldC, oldF))]_vars

\* C27: while the clock is inside the quiet-hours window and pausing during
\* quiet hours is enabled, no task becomes DOWNLOADING: neither the queue
\* processor promotes one nor a delivered message starts a transfer.
C27_NoStartInQuietHours ==
    [][(is_quiet_hours /\ pause_during_quiet_hours) =>
          \A t \in DOMAIN tasks \cap DOMAIN tasks' :
              tasks[t].status # DOWNLOADING => tasks'[t].status # DOWNLOADING]_vars

\* C28: with the speed cap active, after each chunk's throttle step the
\* chunks written in this attempt since the resume offset are at most the
\* cap times the time elapsed since the attempt began streaming (in units
\* of one chunk time at the cap: at most the elapsed time).
C28_ThrottleBoundsBytes ==
    \A w \in Workers :
        wk[w].pc = "stream" =>
            wk[w].next - 1 - wk[w].existing <= wk[w].elapsed

\* C29: the day's statistics row always has total_downloads =
\* completed_downloads + failed_downloads, also when two workers update
\* it concurrently.
C29_TotalIsCompletedPlusFailed ==
    stats.exists =>
        stats.total_downloads = stats.completed_downloads + stats.failed_downloads

\* A message whose task is COMPLETED or CANCELLED or has no row.
Stale(m) ==
    m.task \in Ids => tasks[m.task].status \in {COMPLETED, CANCELLED}

\* C30: the delivery of a message whose task is COMPLETED or CANCELLED or
\* has no row consumes the message and changes nothing else: the rows, the
\* files, the day's statistics and the worker are as before and no message
\* is added.
C30_StaleDeliveryChangesNothing ==
    [][\A w \in Workers :
          \A m \in BagToSet(queue) :
              (Stale(m) /\ WorkerStart(w, m)) =>
                  /\ tasks' = tasks
                  /\ files' = files
                  /\ stats' = stats
                  /\ wk' = wk
                  /\ queue' = queue (-) SetToBag({m})]_vars

\* The task was dispatched twice and is COMPLETED on the day the statistics
\* follow; both messages have been delivered to the one worker, and the
\* statistics count one transfer: the other delivery was stale.
C30_Witness ==
    /\ Ids = {1}
    /\ tasks[1].status = COMPLETED
    /\ tasks[1].retry_count = 0
    /\ tasks[1].error_message = "none"
    /\ hist[1].adm = 2
    /\ queue = EmptyBag
    /\ wk[1].pc = "idle"
    /\ files[<<1, "movie", 1>>] = Full
    /\ stats = [exists |-> TRUE, total_downloads |-> 1,
                completed_downloads |-> 1, failed_downloads |-> 0]
====
